---------------------------- MODULE Spec2Model ----------------------------
(***************************************************************************)
(* The client-side session lifecycle of the Ticket_Raiser frontend:        *)
(*   - services/auth.ts   (authService: the REST calls and localStorage)   *)
(*   - hooks/useTokenRefresh.ts (isTokenExpiringSoon, refreshToken)        *)
(*   - contexts/AuthContext.tsx (AuthProvider: user, isLoading, error)     *)
(* and two components that stand beside it:                                *)
(*   - components/ProtectedRoute.example.tsx (ProtectedRoute)              *)
(*   - features/MySubmissions/MySubmissions.tsx (MySubmissionsPage)        *)
(*   - components/Auth.tsx (AdminIssues: the filter of the issue list)     *)
(*                                                                         *)
(* Execution is single-threaded and event-loop driven.  An async handler   *)
(* runs from its start to its first await in one step, and from the        *)
(* arrival of a response to its next await (or its end) in one step.       *)
(* Handlers started by different UI events interleave at those points.     *)
(***************************************************************************)
EXTENDS Integers, Sequences, FiniteSets, Bags

VARIABLES
    storage,    \* localStorage: a function whose DOMAIN is the set of keys present
    user,       \* AuthProvider state: useState<User | null>(null)
    isLoading,  \* AuthProvider state: useState(true)
    error,      \* AuthProvider state: useState<string | null>(null)
    mounted,    \* whether the provider's mount effect has run
    calls,      \* the bag of async calls in flight, each suspended at an await
    last,       \* the step taken last: what ran, on what response, with what outcome
    solo,       \* whether no two calls have overlapped since calls was last empty
    rendered,   \* ProtectedRoute: the props of its last render and what it returned
    loading,        \* MySubmissionsPage state: useState(true)
    submissions,    \* MySubmissionsPage state: useState<Submission[]>([])
    fetchError,     \* MySubmissionsPage state `error`: useState<string | null>(null)
    currentPage,    \* MySubmissionsPage state: useState(1)
    fetches,        \* the bag of fetchSubmissions calls suspended at their await
    pageLast,       \* the step MySubmissionsPage took last
    issues,         \* AdminIssues state: useState<Issue[]>([])
    filter,         \* AdminIssues state: useState('all')
    filteredIssues  \* AdminIssues: the filteredIssues of its last render

\* The session: the service's storage, the provider and the hook.
authVars == <<storage, user, isLoading, error, mounted, calls, last, solo>>

routeVars == <<rendered>>

pageVars == <<loading, submissions, fetchError, currentPage, fetches, pageLast>>

issuesVars == <<issues, filter, filteredIssues>>

vars == <<authVars, routeVars, pageVars, issuesVars>>

---------------------------------------------------------------------------
(* Bounds of the model *)

\* The number of async calls that may be in flight at once.
MaxCalls == 2

\* The number of fetchSubmissions calls that may be in flight at once.
MaxFetches == 2

\* The highest page MySubmissionsPage is taken to.
MaxPage == 3

\* The length of a page of submissions that is neither empty nor full.
ShortPage == 3

\* The longest list of issues AdminIssues holds.
MaxIssues == 3

---------------------------------------------------------------------------
(* core/config.ts *)

ACCESS_TOKEN_KEY == "accessToken"

ACCESS_TOKEN_EXPIRY_KEY == "accessTokenExpiry"

USER_KEY == "user"

ACCESS_TOKEN_BUFFER == 60

---------------------------------------------------------------------------
(* JavaScript values *)

\* null where a string is expected (string | null)
NULL == "<null>"

\* null where a User is expected (User | null)
NullUser == [email |-> NULL, role |-> NULL]

\* number | null, NaN included: the result of getAccessTokenExpiry
NullNum == [kind |-> "null", v |-> 0]

NaN == [kind |-> "NaN", v |-> 0]

Num(n) == [kind |-> "number", v |-> n]

Digits == <<"0", "1", "2", "3", "4", "5", "6", "7", "8", "9">>

IsDigit(c) == \E d \in 1..10 : Digits[d] = c

DigitVal(c) == (CHOOSE d \in 1..10 : Digits[d] = c) - 1

\* Number.prototype.toString() of an integer: its decimal digits, as a
\* sequence of characters.
RECURSIVE toString(_)
toString(n) ==
    IF n < 0 THEN <<"-">> \o toString(0 - n)
    ELSE IF n < 10 THEN <<Digits[n + 1]>>
    ELSE toString(n \div 10) \o <<Digits[(n % 10) + 1]>>

\* The value of the longest prefix of digits of s, from accumulator acc.
RECURSIVE ParseDigits(_, _)
ParseDigits(s, acc) ==
    IF s = <<>> \/ ~IsDigit(Head(s)) THEN acc
    ELSE ParseDigits(Tail(s), 10 * acc + DigitVal(Head(s)))

\* parseInt(s, 10): an optional sign, then the longest prefix of digits;
\* NaN when there is no digit.
parseInt(s) ==
    LET neg  == s # <<>> /\ Head(s) = "-"
        rest == IF s # <<>> /\ Head(s) \in {"-", "+"} THEN Tail(s) ELSE s
    IN IF rest = <<>> \/ ~IsDigit(Head(rest)) THEN NaN
       ELSE Num(IF neg THEN 0 - ParseDigits(rest, 0) ELSE ParseDigits(rest, 0))

\* JSON.stringify of a User: the text, as the sequence of its tokens.
JSONStringify(u) == <<"{", "email", ":", u.email, ",", "role", ":", u.role, "}">>

\* JSON.parse of such a text.
JSONParse(s) == [email |-> s[4], role |-> s[8]]

---------------------------------------------------------------------------
(* localStorage *)

GetItem(st, key) == IF key \in DOMAIN st THEN st[key] ELSE NULL

HasItem(st, key) == key \in DOMAIN st

SetItem(st, key, value) ==
    [k \in DOMAIN st \cup {key} |-> IF k = key THEN value ELSE st[k]]

RemoveItem(st, key) == [k \in DOMAIN st \ {key} |-> st[k]]

EmptyStorage == [k \in {} |-> NULL]

---------------------------------------------------------------------------
(* services/auth.ts: the synchronous accessors *)

\* setTokens that keeps a refresh token beside the access token
setTokens_withRefreshToken(st, accessToken, expiresAt) ==
    SetItem(SetItem(SetItem(st, ACCESS_TOKEN_KEY, accessToken),
                    ACCESS_TOKEN_EXPIRY_KEY, toString(expiresAt)),
            "refreshToken", accessToken)

\* setTokens(accessToken, expiresAt)
setTokens(st, accessToken, expiresAt) ==
    SetItem(SetItem(st, ACCESS_TOKEN_KEY, accessToken),
            ACCESS_TOKEN_EXPIRY_KEY, toString(expiresAt))

\* getAccessToken(): string | null
getAccessToken(st) == GetItem(st, ACCESS_TOKEN_KEY)

\* getAccessTokenExpiry written as parseInt(expiry, 10) || null, which takes
\* the number 0 for no expiry
getAccessTokenExpiry_zeroIsNull(st) ==
    IF HasItem(st, ACCESS_TOKEN_EXPIRY_KEY) /\ st[ACCESS_TOKEN_EXPIRY_KEY] # <<>>
       /\ parseInt(st[ACCESS_TOKEN_EXPIRY_KEY]).kind = "number"
       /\ parseInt(st[ACCESS_TOKEN_EXPIRY_KEY]).v # 0
    THEN parseInt(st[ACCESS_TOKEN_EXPIRY_KEY])
    ELSE NullNum

\* getAccessTokenExpiry(): expiry ? parseInt(expiry, 10) : null
\* (a string is truthy unless it is empty)
getAccessTokenExpiry(st) ==
    IF HasItem(st, ACCESS_TOKEN_EXPIRY_KEY) /\ st[ACCESS_TOKEN_EXPIRY_KEY] # <<>>
    THEN parseInt(st[ACCESS_TOKEN_EXPIRY_KEY])
    ELSE NullNum

\* setUser(user)
setUser(st, u) == SetItem(st, USER_KEY, JSONStringify(u))

\* getUser(): user ? JSON.parse(user) : null
getUser(st) ==
    IF HasItem(st, USER_KEY) /\ st[USER_KEY] # <<>>
    THEN JSONParse(st[USER_KEY])
    ELSE NullUser

\* clearTokens() that leaves the expiry key
clearTokens_keepsExpiry(st) ==
    RemoveItem(RemoveItem(st, ACCESS_TOKEN_KEY), USER_KEY)

\* clearTokens()
clearTokens(st) ==
    RemoveItem(RemoveItem(RemoveItem(st, ACCESS_TOKEN_KEY),
                          ACCESS_TOKEN_EXPIRY_KEY), USER_KEY)

\* isAuthenticated(): !!this.getAccessToken()
isAuthenticated(st) == getAccessToken(st) # NULL /\ getAccessToken(st) # ""

---------------------------------------------------------------------------
(* The REST backend and the API client (core/api.ts), which are not part   *)
(* of the sources at hand.  A request resolves with the endpoint's         *)
(* response or rejects with an error; the client keeps no state.           *)

Emails == {"alice@x", "bob@x"}

RoleOf(email) == IF email = "alice@x" THEN "USER" ELSE "PROBLEM_SETTER"

\* The User the backend holds for an account.
UserOf(email) == [email |-> email, role |-> RoleOf(email)]

Users == {UserOf(e) : e \in Emails}

\* The access tokens the backend issues, and the account each belongs to.
Tokens == {"alice-1", "bob-1"}

TokenOwner(t) == IF t = "alice-1" THEN "alice@x" ELSE "bob@x"

\* The expires_at values (unix seconds) of the responses.
ExpiresAts == {0, 100}

TokenResponses(ts) == {[access_token |-> t, expires_at |-> e] : t \in ts, e \in ExpiresAts}

MessageResponse == [message |-> "ok"]

\* What a rejected request throws: an Error with a message, or a value that
\* is not an Error.
HttpError == [isError |-> TRUE, message |-> "Unauthorized", status |-> 401]

ThrownValue == [isError |-> FALSE, message |-> NULL, status |-> 0]

Errors == {HttpError, ThrownValue}

Ok(body) == [ok |-> TRUE, body |-> body, err |-> ThrownValue]

Fail(e) == [ok |-> FALSE, body |-> MessageResponse, err |-> e]

NoResult == [ok |-> FALSE, body |-> MessageResponse, err |-> ThrownValue]

\* The access token the client presents with a request.  Only the answer to
\* GET /users/me depends on it.
Bearer(req, st) == IF req.path = "/users/me" THEN getAccessToken(st) ELSE NULL

\* The results a pending request may resolve to.
Responses(req, bearer) ==
    {Fail(e) : e \in Errors} \cup
    CASE req.path = "/auth/login" ->
           {Ok(r) : r \in TokenResponses({t \in Tokens : TokenOwner(t) = req.body[2]})}
      [] req.path = "/auth/refresh" -> {Ok(r) : r \in TokenResponses(Tokens)}
      [] req.path = "/users/me" ->
           IF bearer \in Tokens THEN {Ok(UserOf(TokenOwner(bearer)))} ELSE {}
      [] OTHER -> {Ok(MessageResponse)}

---------------------------------------------------------------------------
(* services/auth.ts: the requests of the async operations, as the options  *)
(* they hand to apiFetch, and their continuations on the result.           *)

NoBody == <<>>

Request(path, method, contentType, body, credentials) ==
    [path |-> path, method |-> method, contentType |-> contentType,
     body |-> body, credentials |-> credentials]

\* register(data): POST /auth/register, body JSON.stringify(data)
authService_register(data) ==
    Request("/auth/register", "POST", "default",
            <<"username", data.username, "email", data.email, "password", data.password>>,
            "default")

\* login(data): POST /auth/login, form-encoded username and password
authService_login(data) ==
    Request("/auth/login", "POST", "application/x-www-form-urlencoded",
            <<"username", data.username, "password", data.password>>, "default")

\* refresh(): POST /auth/refresh, no body, credentials: 'include'
authService_refresh ==
    Request("/auth/refresh", "POST", "default", NoBody, "include")

authService_logout == Request("/auth/logout", "POST", "default", NoBody, "default")

authService_logoutAll == Request("/auth/logout-all", "POST", "default", NoBody, "default")

authService_getCurrentUser == Request("/users/me", "GET", "default", NoBody, "default")

authService_changePassword(data) ==
    Request("/auth/change-password", "POST", "default",
            <<"currentPassword", data.currentPassword, "newPassword", data.newPassword>>,
            "default")

\* What an async service operation leaves when it settles: the storage, and
\* whether it resolved ("ok", with value) or rejected ("threw", with err).
Settled(st, res) ==
    [storage |-> st, outcome |-> IF res.ok THEN "ok" ELSE "threw",
     value |-> res.body, err |-> res.err]

\* login that returns the response without storing it
authService_login_then_notStored(st, res) == Settled(st, res)

\* login that, like logout, clears the session when its request fails
authService_login_then_clearsOnFailure(st, res) ==
    IF res.ok
    THEN Settled(setTokens(st, res.body.access_token, res.body.expires_at), res)
    ELSE Settled(clearTokens(st), res)

\* login that keeps the token already stored (first write wins)
authService_login_then_firstWins(st, res) ==
    IF res.ok /\ ~HasItem(st, ACCESS_TOKEN_KEY)
    THEN Settled(setTokens(st, res.body.access_token, res.body.expires_at), res)
    ELSE Settled(st, res)

\* login / refresh after the await: setTokens(response.access_token,
\* response.expires_at) and return the response; a rejection propagates.
authService_login_then(st, res) ==
    IF res.ok
    THEN Settled(setTokens(st, res.body.access_token, res.body.expires_at), res)
    ELSE Settled(st, res)

\* refresh that stores the new token and leaves the old expiry
authService_refresh_then_tokenOnly(st, res) ==
    IF res.ok
    THEN Settled(SetItem(st, ACCESS_TOKEN_KEY, res.body.access_token), res)
    ELSE Settled(st, res)

authService_refresh_then(st, res) ==
    IF res.ok
    THEN Settled(setTokens(st, res.body.access_token, res.body.expires_at), res)
    ELSE Settled(st, res)

\* logout that clears only when the request succeeded
authService_logout_then_noCatch(st, res) ==
    Settled(IF res.ok THEN clearTokens(st) ELSE st, res)

\* logout / logoutAll after the await: clearTokens() on both paths, then
\* return the response or rethrow.
authService_logout_then(st, res) == Settled(clearTokens(st), res)

authService_logoutAll_then(st, res) == Settled(clearTokens(st), res)

\* register / getCurrentUser / changePassword return apiFetch's promise.
authService_passthrough_then(st, res) == Settled(st, res)

---------------------------------------------------------------------------
(* Async calls in flight *)

NoRequest == Request("none", "none", "none", NoBody, "none")

\* The argument of a handler that takes none.
NoData == [none |-> TRUE]

\* A call of handler op suspended at `await authService.<pc>(...)`, whose
\* request req went out with the storage being st; sent lists the paths of
\* the requests the call issued before; stale tells, of a login or refresh
\* request, whether logout or logoutAll has cleared storage since it went
\* out.
Await(op, pc, data, req, sent, st) ==
    [op |-> op, pc |-> pc, data |-> data, req |-> req,
     bearer |-> Bearer(req, st), sent |-> Append(sent, req.path), stale |-> FALSE]

\* The call c, in flight while logout or logoutAll clears storage.
MarkStale(c) == IF c.pc \in {"login", "refresh"} THEN [c EXCEPT !.stale = TRUE] ELSE c

\* The calls of handler op in flight.
InFlight(op) == {c \in BagToSet(calls) : c.op = op}

\* The AuthProvider state a handler reads and sets.
Ctx == [user |-> user, isLoading |-> isLoading, error |-> error]

\* What a handler's step leaves: the storage, the provider state, and either
\* the next await (outcome "pending", with pc and req) or the handler's end
\* ("returned" or "threw").  svcOutcome is how the awaited service operation
\* settled; ret is the value returned, where there is one.
Pending(st, ctx, pc, req, svcOutcome) ==
    [storage |-> st, ctx |-> ctx, outcome |-> "pending", pc |-> pc, req |-> req,
     svcOutcome |-> svcOutcome, ret |-> FALSE]

Ended(st, ctx, outcome, svcOutcome, ret) ==
    [storage |-> st, ctx |-> ctx, outcome |-> outcome, pc |-> "none",
     req |-> NoRequest, svcOutcome |-> svcOutcome, ret |-> ret]

\* The record of a step, kept in `last`.
Event(op, phase, outcome, svc, svcOutcome, res, sent, data, ret, nowMs) ==
    [op |-> op, phase |-> phase, outcome |-> outcome, svc |-> svc,
     svcOutcome |-> svcOutcome, res |-> res, sent |-> sent, data |-> data,
     ret |-> ret, nowMs |-> nowMs]

NoEvent == Event("none", "none", "none", "none", "none", NoResult, <<>>, NoData, FALSE, 0)

---------------------------------------------------------------------------
(* contexts/AuthContext.tsx: the handlers, from one await to the next *)

\* err instanceof Error ? err.message : <the handler's default>
CatchMessage(err, default) == IF err.isError THEN err.message ELSE default

\* catch { setError(message); throw err } finally { setIsLoading(false) }
CatchFinally(st, ctx, err, default) ==
    Ended(st, [ctx EXCEPT !.error = CatchMessage(err, default), !.isLoading = FALSE],
          "threw", "threw", FALSE)

\* setIsLoading(true) without setError(null)
Begin_keepsError(ctx) == [ctx EXCEPT !.isLoading = TRUE]

\* setIsLoading(true); setError(null)
Begin(ctx) == [ctx EXCEPT !.isLoading = TRUE, !.error = NULL]

\* initAuth whose catch resets the user and leaves storage alone
initAuth_then_keepsTokens(st, ctx, call, res) ==
    IF res.ok
    THEN Ended(setUser(st, res.body), [ctx EXCEPT !.user = res.body, !.isLoading = FALSE],
               "returned", "ok", FALSE)
    ELSE Ended(st, [ctx EXCEPT !.user = NullUser, !.isLoading = FALSE],
               "returned", "threw", FALSE)

\* initAuth that stores again the token it validated
initAuth_then_restoresToken(st, ctx, call, res) ==
    IF res.ok
    THEN Ended(setUser(SetItem(st, ACCESS_TOKEN_KEY, call.bearer), res.body),
               [ctx EXCEPT !.user = res.body, !.isLoading = FALSE],
               "returned", "ok", FALSE)
    ELSE Ended(clearTokens(st), [ctx EXCEPT !.user = NullUser, !.isLoading = FALSE],
               "returned", "threw", FALSE)

\* initAuth without its finally block: isLoading is left as it was
initAuth_then_noFinally(st, ctx, call, res) ==
    IF res.ok
    THEN Ended(setUser(st, res.body), [ctx EXCEPT !.user = res.body],
               "returned", "ok", FALSE)
    ELSE Ended(clearTokens(st), [ctx EXCEPT !.user = NullUser],
               "returned", "threw", FALSE)

\* initAuth, resumed after `await authService.getCurrentUser()`
initAuth_then(st, ctx, call, res) ==
    LET r == authService_passthrough_then(st, res)
    IN IF r.outcome = "ok"
       THEN Ended(setUser(r.storage, r.value),
                  [ctx EXCEPT !.user = r.value, !.isLoading = FALSE],
                  "returned", "ok", FALSE)
       ELSE Ended(clearTokens(r.storage),
                  [ctx EXCEPT !.user = NullUser, !.isLoading = FALSE],
                  "returned", "threw", FALSE)

\* register whose auto-login sends data.username where the code sends
\* data.email
register_then_loginByUsername(st, ctx, call, res) ==
    CASE call.pc = "register" ->
           IF res.ok
           THEN Pending(st, ctx, "login",
                        authService_login([username |-> call.data.username,
                                           password |-> call.data.password]), "ok")
           ELSE CatchFinally(st, ctx, res.err, "Registration failed")
      [] call.pc = "login" ->
           LET r == authService_login_then(st, res)
           IN IF r.outcome = "ok"
              THEN Pending(r.storage, ctx, "getCurrentUser", authService_getCurrentUser, "ok")
              ELSE CatchFinally(r.storage, ctx, r.err, "Registration failed")
      [] OTHER ->
           IF res.ok
           THEN Ended(setUser(st, res.body),
                      [ctx EXCEPT !.user = res.body, !.isLoading = FALSE],
                      "returned", "ok", FALSE)
           ELSE CatchFinally(st, ctx, res.err, "Registration failed")

\* register, resumed after each of its three awaits
register_then(st, ctx, call, res) ==
    CASE call.pc = "register" ->
           LET r == authService_passthrough_then(st, res)
           IN IF r.outcome = "ok"
              THEN Pending(r.storage, ctx, "login",
                           authService_login([username |-> call.data.email,
                                              password |-> call.data.password]), "ok")
              ELSE CatchFinally(r.storage, ctx, r.err, "Registration failed")
      [] call.pc = "login" ->
           LET r == authService_login_then(st, res)
           IN IF r.outcome = "ok"
              THEN Pending(r.storage, ctx, "getCurrentUser", authService_getCurrentUser, "ok")
              ELSE CatchFinally(r.storage, ctx, r.err, "Registration failed")
      [] OTHER ->
           LET r == authService_passthrough_then(st, res)
           IN IF r.outcome = "ok"
              THEN Ended(setUser(r.storage, r.value),
                         [ctx EXCEPT !.user = r.value, !.isLoading = FALSE],
                         "returned", "ok", FALSE)
              ELSE CatchFinally(r.storage, ctx, r.err, "Registration failed")

\* login, resumed after each of its two awaits
login_then(st, ctx, call, res) ==
    CASE call.pc = "login" ->
           LET r == authService_login_then(st, res)
           IN IF r.outcome = "ok"
              THEN Pending(r.storage, ctx, "getCurrentUser", authService_getCurrentUser, "ok")
              ELSE CatchFinally(r.storage, ctx, r.err, "Login failed")
      [] OTHER ->
           LET r == authService_passthrough_then(st, res)
           IN IF r.outcome = "ok"
              THEN Ended(setUser(r.storage, r.value),
                         [ctx EXCEPT !.user = r.value, !.isLoading = FALSE],
                         "returned", "ok", FALSE)
              ELSE CatchFinally(r.storage, ctx, r.err, "Login failed")

\* logout, resumed after `await authService.logout()`
logout_then(st, ctx, call, res) ==
    LET r == authService_logout_then(st, res)
    IN IF r.outcome = "ok"
       THEN Ended(r.storage, [ctx EXCEPT !.user = NullUser, !.isLoading = FALSE],
                  "returned", "ok", FALSE)
       ELSE CatchFinally(r.storage, ctx, r.err, "Logout failed")

\* logoutAll, resumed after `await authService.logoutAll()`
logoutAll_then(st, ctx, call, res) ==
    LET r == authService_logoutAll_then(st, res)
    IN IF r.outcome = "ok"
       THEN Ended(r.storage, [ctx EXCEPT !.user = NullUser, !.isLoading = FALSE],
                  "returned", "ok", FALSE)
       ELSE CatchFinally(r.storage, ctx, r.err, "Logout failed")

\* changePassword, resumed after `await authService.changePassword(data)`
changePassword_then(st, ctx, call, res) ==
    LET r == authService_passthrough_then(st, res)
    IN IF r.outcome = "ok"
       THEN Ended(r.storage, [ctx EXCEPT !.isLoading = FALSE], "returned", "ok", FALSE)
       ELSE CatchFinally(r.storage, ctx, r.err, "Failed to change password")

---------------------------------------------------------------------------
(* hooks/useTokenRefresh.ts *)

\* !token for string | null
FalsyString(s) == s = NULL \/ s = ""

\* !expiryTime for number | null
FalsyNumber(n) == n.kind # "number" \/ n.v = 0

\* isTokenExpiringSoon with <= for <
isTokenExpiringSoon_atMost(st, nowMs) ==
    LET token      == getAccessToken(st)
        expiryTime == getAccessTokenExpiry(st)
    IN IF FalsyString(token) \/ FalsyNumber(expiryTime) THEN TRUE
       ELSE expiryTime.v - (nowMs \div 1000) <= ACCESS_TOKEN_BUFFER

\* isTokenExpiringSoon(), Date.now() being nowMs
isTokenExpiringSoon(st, nowMs) ==
    LET token      == getAccessToken(st)
        expiryTime == getAccessTokenExpiry(st)
    IN IF FalsyString(token) \/ FalsyNumber(expiryTime) THEN TRUE
       ELSE LET now        == nowMs \div 1000
                expiringIn == expiryTime.v - now
            IN expiringIn < ACCESS_TOKEN_BUFFER

\* refreshToken whose catch returns false and clears nothing
refreshToken_then_noClear(st, ctx, call, res) ==
    LET r == authService_refresh_then(st, res)
    IN IF r.outcome = "ok"
       THEN Ended(r.storage, ctx, "returned", "ok", TRUE)
       ELSE Ended(r.storage, ctx, "returned", "threw", FALSE)

\* refreshToken(), resumed after `await authService.refresh()`
refreshToken_then(st, ctx, call, res) ==
    LET r == authService_refresh_then(st, res)
    IN IF r.outcome = "ok"
       THEN Ended(r.storage, ctx, "returned", "ok", TRUE)
       ELSE Ended(clearTokens(r.storage), ctx, "returned", "threw", FALSE)

---------------------------------------------------------------------------
(* components/ProtectedRoute.example.tsx *)

\* requiredRole?: the prop left out
NoRole == NULL

\* ProtectedRoute that trusts the isAuthenticated prop and does not look at
\* the user
ProtectedRoute_propOnly(isAuthenticatedProp, requiredRole, u, ld) ==
    IF ld THEN "loading-container"
    ELSE IF ~isAuthenticatedProp THEN "Navigate /login"
    ELSE IF ~FalsyString(requiredRole) /\ u.role # requiredRole THEN "Access Denied"
    ELSE "children"

\* What ProtectedRoute returns for props isAuthenticatedProp and requiredRole
\* when useAuth() gives user u and isLoading ld.
ProtectedRoute(isAuthenticatedProp, requiredRole, u, ld) ==
    IF ld THEN "loading-container"
    ELSE IF ~isAuthenticatedProp \/ u = NullUser THEN "Navigate /login"
    ELSE IF ~FalsyString(requiredRole) /\ u.role # requiredRole THEN "Access Denied"
    ELSE "children"

\* A render of ProtectedRoute: its props and what it returned.
Rendered(isAuthenticatedProp, requiredRole, out) ==
    [isAuthenticated |-> isAuthenticatedProp, requiredRole |-> requiredRole, out |-> out]

NotRendered == Rendered(FALSE, NoRole, "none")

\* No ProtectedRoute has rendered.
RouteIdle == rendered = NotRendered

---------------------------------------------------------------------------
(* features/MySubmissions/MySubmissions.tsx *)

\* const [itemsPerPage] = useState(10)
itemsPerPage == 10

\* The request of fetchSubmissions:
\* GET /submissions/me/submissions?skip=${skip}&limit=${itemsPerPage}
SubmissionsRequest(skip, limit) ==
    [path |-> "/submissions/me/submissions", method |-> "GET",
     skip |-> skip, limit |-> limit]

\* The call whose request skips currentPage pages, not currentPage - 1
Fetch_skipByPage(page) ==
    [page |-> page, req |-> SubmissionsRequest(page * itemsPerPage, itemsPerPage)]

\* A fetchSubmissions call suspended at `await apiFetch(...)`, started by the
\* effect that ran for currentPage = page.
Fetch(page) ==
    [page |-> page, req |-> SubmissionsRequest((page - 1) * itemsPerPage, itemsPerPage)]

\* A property of the response that is an array, or undefined.
Undefined == [defined |-> FALSE, v |-> <<>>]

Defined(list) == [defined |-> TRUE, v |-> list]

\* Array.isArray(data) ? data : (data.data || data.submissions || [])
\* (an array is truthy, empty or not)
submissionData(data) ==
    IF data.isArray THEN data.items
    ELSE IF data.data.defined THEN data.data.v
    ELSE IF data.submissions.defined THEN data.submissions.v
    ELSE <<>>

\* The component's state.
PageState(ld, subs, err, page) ==
    [loading |-> ld, submissions |-> subs, error |-> err, currentPage |-> page]

\* fetchSubmissions whose catch does not empty the list
fetchSubmissions_then_keepsList(ps, res) ==
    IF res.ok
    THEN [ps EXCEPT !.submissions = submissionData(res.body), !.error = NULL,
                    !.loading = FALSE]
    ELSE [ps EXCEPT !.error = CatchMessage(res.err, "Failed to fetch submissions"),
                    !.loading = FALSE]

\* fetchSubmissions, resumed after `await apiFetch(...)`: what try, catch and
\* finally leave of state ps (currentPage is not touched).
fetchSubmissions_then(ps, res) ==
    IF res.ok
    THEN [ps EXCEPT !.submissions = submissionData(res.body), !.error = NULL,
                    !.loading = FALSE]
    ELSE [ps EXCEPT !.error = CatchMessage(res.err, "Failed to fetch submissions"),
                    !.submissions = <<>>, !.loading = FALSE]

\* The early return: loading && submissions.length === 0
LoadingStateShown(ps) == ps.loading /\ Len(ps.submissions) = 0

\* {error && <div className="error-banner">}
ErrorBannerShown(ps) == ~LoadingStateShown(ps) /\ ~FalsyString(ps.error)

\* submissions.length === 0 ? <empty-state> : <table and pagination>
EmptyStateShown(ps) == ~LoadingStateShown(ps) /\ Len(ps.submissions) = 0

TableShown(ps) == ~LoadingStateShown(ps) /\ Len(ps.submissions) # 0

\* The pagination is inside the table branch: {submissions.length > 0 && ...}
PaginationShown(ps) == TableShown(ps) /\ Len(ps.submissions) > 0

\* The Previous button: "absent" when it is not rendered, else "disabled"
\* (disabled={currentPage === 1}) or "enabled".
PreviousControl(ps) ==
    IF ~PaginationShown(ps) THEN "absent"
    ELSE IF ps.currentPage = 1 THEN "disabled" ELSE "enabled"

\* The Next button that is disabled only when the page is empty
NextControl_emptyOnly(ps) ==
    IF ~PaginationShown(ps) THEN "absent"
    ELSE IF Len(ps.submissions) < 1 THEN "disabled" ELSE "enabled"

\* The Next button: disabled={submissions.length < itemsPerPage}
NextControl(ps) ==
    IF ~PaginationShown(ps) THEN "absent"
    ELSE IF Len(ps.submissions) < itemsPerPage THEN "disabled" ELSE "enabled"

\* The record of a step of the page, kept in `pageLast`: the step, the page
\* and the request it concerns, the response processed, and what the page
\* showed when the step began.
PageEvent(op, page, req, res, before) ==
    [op |-> op, page |-> page, req |-> req, res |-> res, before |-> before]

\* The component is not on screen.
PageIdle ==
    /\ loading = TRUE
    /\ submissions = <<>>
    /\ fetchError = NULL
    /\ currentPage = 1
    /\ fetches = EmptyBag
    /\ pageLast = PageEvent("none", 0, SubmissionsRequest(0, 0), NoResult,
                            PageState(TRUE, <<>>, NULL, 1))

---------------------------------------------------------------------------
(* components/Auth.tsx: AdminIssues.  Strings are sequences of characters,  *)
(* so that toLowerCase and toUpperCase are computed, letter by letter.      *)

\* The letters that occur in the values of status and filter.
LowerCaseLetters == <<"a", "c", "d", "e", "g", "i", "l", "n", "o", "p", "r", "s">>

UpperCaseLetters == <<"A", "C", "D", "E", "G", "I", "L", "N", "O", "P", "R", "S">>

\* Where ch stands in letters, or 0.
IndexOf(ch, letters) ==
    IF \E k \in 1..Len(letters) : letters[k] = ch
    THEN CHOOSE k \in 1..Len(letters) : letters[k] = ch
    ELSE 0

\* String.prototype.toLowerCase(): every upper-case letter becomes its
\* lower-case letter, every other character ("_") stays.
toLowerCase(str) ==
    [i \in 1..Len(str) |->
        IF IndexOf(str[i], UpperCaseLetters) # 0
        THEN LowerCaseLetters[IndexOf(str[i], UpperCaseLetters)]
        ELSE str[i]]

\* String.prototype.toUpperCase()
toUpperCase(str) ==
    [i \in 1..Len(str) |->
        IF IndexOf(str[i], LowerCaseLetters) # 0
        THEN UpperCaseLetters[IndexOf(str[i], LowerCaseLetters)]
        ELSE str[i]]

\* status: 'OPEN' | 'IN_PROGRESS' | 'CLOSED'
OPEN == <<"O", "P", "E", "N">>

IN_PROGRESS == <<"I", "N", "_", "P", "R", "O", "G", "R", "E", "S", "S">>

CLOSED == <<"C", "L", "O", "S", "E", "D">>

Statuses == {OPEN, IN_PROGRESS, CLOSED}

\* filter: 'all' | 'open' | 'in_progress' | 'closed'
FilterAll == <<"a", "l", "l">>

FilterOpen == <<"o", "p", "e", "n">>

FilterInProgress == <<"i", "n", "_", "p", "r", "o", "g", "r", "e", "s", "s">>

FilterClosed == <<"c", "l", "o", "s", "e", "d">>

Filters == {FilterAll, FilterOpen, FilterInProgress, FilterClosed}

\* issues.filter((issue) => {
\*   if (filter === 'all') return true;
\*   return issue.status.toLowerCase() === filter.toUpperCase(); })
FilterPredicate(issue, f) ==
    IF f = FilterAll THEN TRUE
    ELSE toLowerCase(issue.status) = toUpperCase(f)

FilteredIssues(list, f) == SelectSeq(list, LAMBDA issue : FilterPredicate(issue, f))

\* The component before its first render: useState([]), useState('all').
IssuesIdle ==
    /\ issues = <<>>
    /\ filter = FilterAll
    /\ filteredIssues = <<>>

---------------------------------------------------------------------------
(* Inputs *)

RegisterRequests ==
    {[username |-> "alice", email |-> "alice@x", password |-> "pw"],
     [username |-> "bob", email |-> "bob@x", password |-> "pw"]}

LoginRequests == {[username |-> e, password |-> "pw"] : e \in Emails}

ChangePasswordRequests == {[currentPassword |-> "pw", newPassword |-> "pw2"]}

\* Values of Date.now(), in milliseconds.
NowMsValues == {40999, 41000}

\* What localStorage may hold when the page loads: nothing, or the session
\* an earlier page load left.
InitStorages ==
    {EmptyStorage}
    \cup {setTokens(EmptyStorage, t, e) : t \in Tokens, e \in ExpiresAts}
    \cup {setUser(setTokens(EmptyStorage, t, e), UserOf(TokenOwner(t))) :
            t \in Tokens, e \in ExpiresAts}

---------------------------------------------------------------------------
(* The state machine *)

Init ==
    /\ storage \in InitStorages
    /\ user = NullUser
    /\ isLoading = TRUE
    /\ error = NULL
    /\ mounted = FALSE
    /\ calls = EmptyBag
    /\ last = NoEvent
    /\ solo = FALSE
    /\ RouteIdle
    /\ PageIdle
    /\ IssuesIdle

\* A handler may start once the provider is mounted (and, in the model,
\* while fewer than MaxCalls calls are in flight).
CanStart == mounted /\ BagCardinality(calls) < MaxCalls

\* A handler starts: it sets the provider state to ctx, issues req and
\* suspends at its first await.
Start(op, pc, data, req, ctx) ==
    /\ user' = ctx.user
    /\ isLoading' = ctx.isLoading
    /\ error' = ctx.error
    /\ calls' = calls (+) SetToBag({Await(op, pc, data, req, <<>>, storage)})
    /\ last' = Event(op, "start", "pending", "none", "none", NoResult,
                     <<req.path>>, data, FALSE, 0)
    /\ solo' = (calls = EmptyBag)
    /\ UNCHANGED <<storage, mounted, routeVars, pageVars, issuesVars>>

\* The request of call c resolves to res and the handler runs on, with
\* result R, to its next await or to its end.
Resume(c, R, res) ==
    /\ storage' = R.storage
    /\ user' = R.ctx.user
    /\ isLoading' = R.ctx.isLoading
    /\ error' = R.ctx.error
    /\ calls' = (IF c.pc \in {"logout", "logoutAll"}
                 THEN BagOfAll(MarkStale, calls (-) SetToBag({c}))
                 ELSE calls (-) SetToBag({c})) (+)
                    (IF R.outcome = "pending"
                     THEN SetToBag({Await(c.op, R.pc, c.data, R.req, c.sent, R.storage)})
                     ELSE EmptyBag)
    /\ last' = Event(c.op, IF R.outcome = "pending" THEN "await" ELSE "done",
                     R.outcome, c.pc, R.svcOutcome, res,
                     IF R.outcome = "pending"
                     THEN Append(c.sent, R.req.path) ELSE c.sent,
                     c.data, R.ret, 0)
    /\ UNCHANGED <<mounted, solo, routeVars, pageVars, issuesVars>>

\* The mount effect: initAuth() up to its await, or to its end when no token
\* is stored.
Mount ==
    /\ ~mounted
    /\ mounted' = TRUE
    /\ solo' = isAuthenticated(storage)
    /\ UNCHANGED <<routeVars, pageVars, issuesVars>>
    /\ IF isAuthenticated(storage)
       THEN /\ calls' = calls (+) SetToBag({Await("initAuth", "getCurrentUser", NoData,
                                                   authService_getCurrentUser, <<>>,
                                                   storage)})
            /\ last' = Event("initAuth", "start", "pending", "none", "none", NoResult,
                             <<authService_getCurrentUser.path>>, NoData, FALSE, 0)
            /\ UNCHANGED <<storage, user, isLoading, error>>
       ELSE /\ isLoading' = FALSE
            /\ last' = Event("initAuth", "done", "returned", "none", "none", NoResult,
                             <<>>, NoData, FALSE, 0)
            /\ UNCHANGED <<storage, user, error, calls>>

InitAuthResume ==
    \E c \in InFlight("initAuth") :
       \E res \in Responses(c.req, c.bearer) :
          Resume(c, initAuth_then(storage, Ctx, c, res), res)

Register(data) ==
    /\ CanStart
    /\ Start("register", "register", data, authService_register(data), Begin(Ctx))

RegisterResume ==
    \E c \in InFlight("register") :
       \E res \in Responses(c.req, c.bearer) :
          Resume(c, register_then(storage, Ctx, c, res), res)

Login(data) ==
    /\ CanStart
    /\ Start("login", "login", data, authService_login(data), Begin(Ctx))

LoginResume ==
    \E c \in InFlight("login") :
       \E res \in Responses(c.req, c.bearer) :
          Resume(c, login_then(storage, Ctx, c, res), res)

Logout ==
    /\ CanStart
    /\ Start("logout", "logout", NoData, authService_logout, Begin(Ctx))

LogoutResume ==
    \E c \in InFlight("logout") :
       \E res \in Responses(c.req, c.bearer) :
          Resume(c, logout_then(storage, Ctx, c, res), res)

LogoutAll ==
    /\ CanStart
    /\ Start("logoutAll", "logoutAll", NoData, authService_logoutAll, Begin(Ctx))

LogoutAllResume ==
    \E c \in InFlight("logoutAll") :
       \E res \in Responses(c.req, c.bearer) :
          Resume(c, logoutAll_then(storage, Ctx, c, res), res)

ChangePassword(data) ==
    /\ CanStart
    /\ Start("changePassword", "changePassword", data,
             authService_changePassword(data), Begin(Ctx))

ChangePasswordResume ==
    \E c \in InFlight("changePassword") :
       \E res \in Responses(c.req, c.bearer) :
          Resume(c, changePassword_then(storage, Ctx, c, res), res)

\* clearError(): setError(null)
ClearError ==
    /\ mounted
    /\ error # NULL
    /\ error' = NULL
    /\ last' = Event("clearError", "done", "returned", "none", "none", NoResult,
                     <<>>, NoData, FALSE, 0)
    /\ UNCHANGED <<storage, user, isLoading, mounted, calls, solo, routeVars, pageVars, issuesVars>>

\* The hook's refreshToken(), started by whatever uses the hook.
RefreshToken ==
    /\ CanStart
    /\ Start("refreshToken", "refresh", NoData, authService_refresh, Ctx)

RefreshTokenResume ==
    \E c \in InFlight("refreshToken") :
       \E res \in Responses(c.req, c.bearer) :
          Resume(c, refreshToken_then(storage, Ctx, c, res), res)

\* The hook's isTokenExpiringSoon(), called at time nowMs.
IsTokenExpiringSoon(nowMs) ==
    /\ mounted
    /\ last' = Event("isTokenExpiringSoon", "done", "returned", "none", "none",
                     NoResult, <<>>, NoData, isTokenExpiringSoon(storage, nowMs), nowMs)
    /\ UNCHANGED <<storage, user, isLoading, error, mounted, calls, solo,
                    routeVars, pageVars, issuesVars>>

Next ==
    \/ Mount
    \/ InitAuthResume
    \/ \E data \in RegisterRequests : Register(data)
    \/ RegisterResume
    \/ \E data \in LoginRequests : Login(data)
    \/ LoginResume
    \/ Logout
    \/ LogoutResume
    \/ LogoutAll
    \/ LogoutAllResume
    \/ \E data \in ChangePasswordRequests : ChangePassword(data)
    \/ ChangePasswordResume
    \/ ClearError
    \/ RefreshToken
    \/ RefreshTokenResume
    \/ \E nowMs \in NowMsValues : IsTokenExpiringSoon(nowMs)

Spec == Init /\ [][Next]_vars

\* The mount effect runs once the provider has rendered, and the request of
\* initAuth resolves (a response, an error or apiFetch's timeout).  Nothing
\* is assumed of the other handlers.
FairSpec == Init /\ [][Next]_vars /\ WF_vars(Mount) /\ WF_vars(InitAuthResume)

---------------------------------------------------------------------------
(* MySubmissionsPage as a state machine.  The effect on [currentPage] runs  *)
(* fetchSubmissions() after the first render and after every render that    *)
(* changed currentPage, before the next event is handled: a click that      *)
(* changes currentPage and the start of the fetch it causes are one step.   *)

\* The submissions endpoint, which is not part of the sources at hand: the
\* lists it may answer a request with (the submissions at positions
\* skip + 1 .. skip + n, named by their position) ...
SubmissionLists(req) ==
    {[i \in 1..n |-> req.skip + i] : n \in {0, ShortPage, req.limit}}

\* ... and the shapes of its answer: the array itself, or an object that
\* holds it as data, as submissions, or not at all.
SubmissionBodies(req) ==
    {[isArray |-> TRUE, items |-> l, data |-> Undefined, submissions |-> Undefined] :
        l \in SubmissionLists(req)}
    \cup {[isArray |-> FALSE, items |-> <<>>, data |-> Defined(l), submissions |-> Undefined] :
            l \in SubmissionLists(req)}
    \cup {[isArray |-> FALSE, items |-> <<>>, data |-> Undefined, submissions |-> Defined(l)] :
            l \in SubmissionLists(req)}
    \cup {[isArray |-> FALSE, items |-> <<>>, data |-> Undefined, submissions |-> Undefined]}

SubmissionResponses(req) ==
    {Fail(e) : e \in Errors} \cup {Ok(b) : b \in SubmissionBodies(req)}

\* The component's state, as one value.
Page == PageState(loading, submissions, fetchError, currentPage)

\* The state after the first render and its effect: fetchSubmissions() has
\* run to its await, for page 1.
PageInit ==
    /\ loading = TRUE
    /\ submissions = <<>>
    /\ fetchError = NULL
    /\ currentPage = 1
    /\ fetches = SetToBag({Fetch(1)})
    /\ pageLast = PageEvent("mount", 1, Fetch(1).req, NoResult,
                            PageState(TRUE, <<>>, NULL, 1))
    /\ storage = EmptyStorage
    /\ user = NullUser
    /\ isLoading = FALSE
    /\ error = NULL
    /\ mounted = TRUE
    /\ calls = EmptyBag
    /\ last = NoEvent
    /\ solo = FALSE
    /\ RouteIdle
    /\ IssuesIdle

\* setCurrentPage(page) and, when that changes currentPage, the effect:
\* fetchSubmissions() up to its await (setLoading(true), the request).
SetCurrentPage(op, page) ==
    /\ currentPage' = page
    /\ pageLast' = PageEvent(op, page, Fetch(page).req, NoResult, Page)
    /\ IF page # currentPage
       THEN /\ BagCardinality(fetches) < MaxFetches
            /\ loading' = TRUE
            /\ fetches' = fetches (+) SetToBag({Fetch(page)})
       ELSE UNCHANGED <<loading, fetches>>
    /\ UNCHANGED <<submissions, fetchError, authVars, routeVars, issuesVars>>

\* A click on Previous: setCurrentPage((prev) => Math.max(1, prev - 1))
PreviousClick ==
    /\ PreviousControl(Page) = "enabled"
    /\ SetCurrentPage("previous", IF currentPage - 1 > 1 THEN currentPage - 1 ELSE 1)

\* A click on Next: setCurrentPage((prev) => prev + 1)
NextClick ==
    /\ NextControl(Page) = "enabled"
    /\ currentPage < MaxPage
    /\ SetCurrentPage("next", currentPage + 1)

\* The request of a fetchSubmissions call resolves and the call runs to its
\* end.
FetchResume ==
    \E f \in BagToSet(fetches) :
       \E res \in SubmissionResponses(f.req) :
          LET ps == fetchSubmissions_then(Page, res)
          IN /\ loading' = ps.loading
             /\ submissions' = ps.submissions
             /\ fetchError' = ps.error
             /\ fetches' = fetches (-) SetToBag({f})
             /\ pageLast' = PageEvent("fetch", f.page, f.req, res, Page)
             /\ UNCHANGED <<currentPage, authVars, routeVars, issuesVars>>

PageNext == PreviousClick \/ NextClick \/ FetchResume

PageSpec == PageInit /\ [][PageNext]_vars

---------------------------------------------------------------------------
(* ProtectedRoute, rendered with every combination of props over every      *)
(* value useAuth() can give.                                                *)

\* The roles a user may have; requiredRole can name the first two.
Roles == {"USER", "PROBLEM_SETTER", "ADMIN"}

RequiredRoles == {NoRole, "USER", "PROBLEM_SETTER"}

\* The values of the provider's user: null, or an account with a role.
RouteUsers ==
    {NullUser} \cup {[email |-> e, role |-> r] : e \in Emails \cup {"carol@x"}, r \in Roles}

RouteInit ==
    /\ user \in RouteUsers
    /\ isLoading \in BOOLEAN
    /\ rendered = NotRendered
    /\ storage = EmptyStorage
    /\ error = NULL
    /\ mounted = TRUE
    /\ calls = EmptyBag
    /\ last = NoEvent
    /\ solo = FALSE
    /\ PageIdle
    /\ IssuesIdle

\* <ProtectedRoute isAuthenticated={...} requiredRole={...}> renders.
Render(isAuthenticatedProp, requiredRole) ==
    /\ rendered' = Rendered(isAuthenticatedProp, requiredRole,
                            ProtectedRoute(isAuthenticatedProp, requiredRole,
                                           user, isLoading))
    /\ UNCHANGED <<authVars, pageVars, issuesVars>>

RouteNext ==
    \E isAuthenticatedProp \in BOOLEAN, requiredRole \in RequiredRoles :
       Render(isAuthenticatedProp, requiredRole)

RouteSpec == RouteInit /\ [][RouteNext]_vars

---------------------------------------------------------------------------
(* The synchronous accessors of authService, called in any order with any   *)
(* arguments.                                                               *)

\* Token strings: the backend's, and the empty string.
TokenStrings == Tokens \cup {""}

\* Expiries in unix seconds: one digit, several digits, a timestamp.
Expiries == {0, 9, 10, 99, 100, 1000, 1700000000}

StorageInit ==
    /\ storage \in InitStorages
    /\ last = NoEvent
    /\ user = NullUser
    /\ isLoading = FALSE
    /\ error = NULL
    /\ mounted = TRUE
    /\ calls = EmptyBag
    /\ solo = FALSE
    /\ RouteIdle
    /\ PageIdle
    /\ IssuesIdle

\* A synchronous call of the service that writes storage.
Written(st, op, data) ==
    /\ storage' = st
    /\ last' = Event(op, "done", "returned", "none", "none", NoResult, <<>>, data,
                     FALSE, 0)
    /\ UNCHANGED <<user, isLoading, error, mounted, calls, solo, routeVars, pageVars, issuesVars>>

SetTokens(accessToken, expiresAt) ==
    /\ accessToken \in TokenStrings
    /\ Written(setTokens(storage, accessToken, expiresAt), "setTokens",
               [accessToken |-> accessToken, expiresAt |-> expiresAt])

SetUser(u) ==
    /\ u \in Users
    /\ Written(setUser(storage, u), "setUser", u)

ClearTokens ==
    /\ storage' = clearTokens(storage)
    /\ last' = Event("clearTokens", "done", "returned", "none", "none", NoResult, <<>>,
                     NoData, FALSE, 0)
    /\ UNCHANGED <<user, isLoading, error, mounted, calls, solo, routeVars, pageVars, issuesVars>>

StorageNext ==
    \/ \E accessToken \in TokenStrings, expiresAt \in Expiries :
          SetTokens(accessToken, expiresAt)
    \/ \E u \in Users : SetUser(u)
    \/ ClearTokens

StorageSpec == StorageInit /\ [][StorageNext]_vars

---------------------------------------------------------------------------
(* AdminIssues: the filter buttons, clicked in any order over any list of   *)
(* issues held in the component's state.  (fetchIssues is a placeholder     *)
(* that sets the empty list; the lists are those setIssues may be given     *)
(* once it fetches.)                                                        *)

\* Lists of issues, each named by its position.
IssueLists ==
    UNION {{[i \in 1..n |-> [id |-> i, status |-> st[i]]] : st \in [1..n -> Statuses]} :
              n \in 0..MaxIssues}

\* The first render that shows a list: filter is 'all'.
IssuesInit ==
    /\ issues \in IssueLists
    /\ filter = FilterAll
    /\ filteredIssues = FilteredIssues(issues, FilterAll)
    /\ storage = EmptyStorage
    /\ user = NullUser
    /\ isLoading = FALSE
    /\ error = NULL
    /\ mounted = TRUE
    /\ calls = EmptyBag
    /\ last = NoEvent
    /\ solo = FALSE
    /\ RouteIdle
    /\ PageIdle

\* A click on a filter button: setFilter(f), and the render that follows.
SetFilter(f) ==
    /\ f # filter
    /\ filter' = f
    /\ filteredIssues' = FilteredIssues(issues, f)
    /\ UNCHANGED <<issues, authVars, routeVars, pageVars>>

IssuesNext == \E f \in Filters : SetFilter(f)

IssuesSpec == IssuesInit /\ [][IssuesNext]_vars

---------------------------------------------------------------------------
(* Properties *)

SessionKeys == {ACCESS_TOKEN_KEY, ACCESS_TOKEN_EXPIRY_KEY, USER_KEY}

\* None of the three keys is in storage.
AllKeysAbsent == DOMAIN storage \cap SessionKeys = {}

\* The step just taken settled service operation svc.
JustSettled(svc) == last.phase \in {"await", "done"} /\ last.svc = svc

\* The step just taken ended handler op.
JustEnded(op) == last.phase = "done" /\ last.op = op

\* No call is in flight and the mount effect has run.
Quiescent == mounted /\ calls = EmptyBag

\* Storage holds exactly the token and the expiry of token response r.
StoredIs(r) ==
    /\ HasItem(storage, ACCESS_TOKEN_KEY)
    /\ storage[ACCESS_TOKEN_KEY] = r.access_token
    /\ HasItem(storage, ACCESS_TOKEN_EXPIRY_KEY)
    /\ storage[ACCESS_TOKEN_EXPIRY_KEY] = toString(r.expires_at)
    /\ getAccessToken(storage) = r.access_token
    /\ getAccessTokenExpiry(storage) = Num(r.expires_at)

\* C1: whenever authService.logout() or authService.logoutAll() settles,
\* resolved or rejected, none of the keys accessToken, accessTokenExpiry
\* and user is in storage.
C1_LogoutClearsStorage ==
    (JustSettled("logout") \/ JustSettled("logoutAll")) => AllKeysAbsent

\* C1 witness: authService.logout() has just rejected, in a session whose
\* user the provider still holds, and the keys are gone.
C1_Witness ==
    /\ JustSettled("logout")
    /\ last.svcOutcome = "threw"
    /\ ~last.res.ok
    /\ user # NullUser
    /\ AllKeysAbsent

\* C2: after the provider's logout or logoutAll has ended, its request
\* resolved or rejected, storage holds no access token and the provider's
\* user is null (isAuthenticated, !!user, is false).
C2_LogoutLeavesUnauthenticated ==
    (JustEnded("logout") \/ JustEnded("logoutAll")) =>
        /\ ~HasItem(storage, ACCESS_TOKEN_KEY)
        /\ user = NullUser

\* C3: when initAuth found a token and GET /users/me was answered 401, the
\* mount sequence has issued that one request and no other, and ends with
\* user null, isLoading false and none of the three keys in storage.
C3_MountPurgesInvalidToken ==
    (JustEnded("initAuth") /\ last.svc = "getCurrentUser" /\ ~last.res.ok) =>
        /\ last.sent = <<"/users/me">>
        /\ user = NullUser
        /\ isLoading = FALSE
        /\ AllKeysAbsent

\* C3 witness: the mount sequence has just ended on a 401.
C3_Witness ==
    /\ JustEnded("initAuth")
    /\ last.svc = "getCurrentUser"
    /\ last.res = Fail(HttpError)
    /\ last.res.err.status = 401
    /\ user = NullUser
    /\ AllKeysAbsent

\* C4: after every authService.login that resolved, the token and the
\* expiry in storage are the access_token and the expires_at of its
\* response.
C4_LoginStoresResponse ==
    (JustSettled("login") /\ last.res.ok) => StoredIs(last.res.body)

\* C4 witness: a login has just resolved over another account's session,
\* whose cached user is still in storage.
C4_Witness ==
    /\ JustSettled("login")
    /\ last.res.ok
    /\ StoredIs(last.res.body)
    /\ getUser(storage) # NullUser
    /\ getUser(storage).email # TokenOwner(last.res.body.access_token)

\* The expiry in storage, as the number its decimal digits denote.
StoredExpiry == parseInt(storage[ACCESS_TOKEN_EXPIRY_KEY]).v

\* C5: isTokenExpiringSoon() returns true if and only if the token or the
\* expiry is absent from storage or expiry - now < 60, now being the time
\* in whole seconds.
C5_ExpiringSoonIff ==
    (last.op = "isTokenExpiringSoon") =>
        (last.ret <=>
            \/ ~HasItem(storage, ACCESS_TOKEN_KEY)
            \/ ~HasItem(storage, ACCESS_TOKEN_EXPIRY_KEY)
            \/ StoredExpiry - (last.nowMs \div 1000) < 60)

\* C5 witness: a token expiring in exactly 60 seconds is not expiring soon.
C5_Witness ==
    /\ last.op = "isTokenExpiringSoon"
    /\ HasItem(storage, ACCESS_TOKEN_KEY)
    /\ HasItem(storage, ACCESS_TOKEN_EXPIRY_KEY)
    /\ StoredExpiry - (last.nowMs \div 1000) = 60
    /\ last.nowMs % 1000 # 0
    /\ last.ret = FALSE

\* C6: the hook's refreshToken() never throws; it returns true exactly when
\* the refresh request succeeded, storage then holding the token and expiry
\* of the response, and false otherwise, with none of the three keys left.
C6_RefreshTokenResult ==
    JustEnded("refreshToken") =>
        /\ last.outcome = "returned"
        /\ last.ret <=> last.res.ok
        /\ last.ret => StoredIs(last.res.body)
        /\ ~last.ret => AllKeysAbsent

\* C6 witness: refreshToken() has just returned false on a failed refresh,
\* in a session whose user the provider holds.
C6_Witness ==
    /\ JustEnded("refreshToken")
    /\ ~last.res.ok
    /\ last.ret = FALSE
    /\ user # NullUser
    /\ AllKeysAbsent

\* C7: whenever no auth operation is in flight, authService.isAuthenticated()
\* and the provider's isAuthenticated (!!user) are both true if and only if
\* a non-empty access token is in storage.
C7_AuthenticatedIffToken ==
    Quiescent =>
        LET tokenStored == HasItem(storage, ACCESS_TOKEN_KEY)
                              /\ storage[ACCESS_TOKEN_KEY] # ""
        IN /\ isAuthenticated(storage) <=> tokenStored
           /\ (user # NullUser) <=> tokenStored

\* C8: when register's registration request succeeded and its login request
\* or its current-user fetch failed, register rejects with the provider's
\* error set, having sent nothing but those requests, and leaves the
\* provider's user null and no access token in storage.
C8_RegisterPartialFailure ==
    (JustEnded("register") /\ last.svc \in {"login", "getCurrentUser"} /\ ~last.res.ok) =>
        /\ last.outcome = "threw"
        /\ error # NULL
        /\ \A k \in 1..Len(last.sent) :
              last.sent[k] \in {"/auth/register", "/auth/login", "/users/me"}
        /\ user = NullUser
        /\ ~HasItem(storage, ACCESS_TOKEN_KEY)

\* The paths register has sent when it is suspended at pc.
RegisterSent(pc) ==
    CASE pc = "register" -> <<"/auth/register">>
      [] pc = "login" -> <<"/auth/register", "/auth/login">>
      [] OTHER -> <<"/auth/register", "/auth/login", "/users/me">>

\* C9: register(data) issues register, login and the current-user fetch in
\* this order, each after the one before succeeded, the login with
\* data.email and data.password; when all three succeed the provider's user
\* and the cached user have email data.email.
C9_RegisterThenLogin ==
    /\ \A c \in InFlight("register") :
          /\ c.sent = RegisterSent(c.pc)
          /\ c.pc = "login" =>
                c.req.body = <<"username", c.data.email, "password", c.data.password>>
    /\ (JustEnded("register") /\ last.outcome = "returned") =>
          /\ last.sent = RegisterSent("getCurrentUser")
          /\ user # NullUser
          /\ user.email = last.data.email
          /\ getUser(storage).email = last.data.email

\* C9 witness: a register has just ended with all three requests answered.
C9_Witness ==
    /\ JustEnded("register")
    /\ last.outcome = "returned"
    /\ last.res.ok
    /\ user.email = last.data.email
    /\ isAuthenticated(storage)
    /\ TokenOwner(getAccessToken(storage)) = last.data.email

\* C10: the refresh request carries no body, hence no token, and
\* credentials 'include'; after every refresh that resolved, the token and
\* the expiry in storage are those of its response.
C10_RefreshOverwrites ==
    /\ \A c \in BagToSet(calls) :
          c.req.path = "/auth/refresh" =>
             /\ c.req.body = NoBody
             /\ c.req.credentials = "include"
    /\ (JustSettled("refresh") /\ last.res.ok) => StoredIs(last.res.body)

\* C10 witness: a refresh has just resolved over the session of another
\* account, whose cached user is still in storage.
C10_Witness ==
    /\ JustSettled("refresh")
    /\ last.res.ok
    /\ StoredIs(last.res.body)
    /\ getUser(storage) # NullUser
    /\ getUser(storage).email # TokenOwner(last.res.body.access_token)

\* What service operation svc leaves of storage st on result res.
ServiceThen(svc, st, res) ==
    CASE svc = "login" -> authService_login_then(st, res)
      [] svc = "refresh" -> authService_refresh_then(st, res)
      [] OTHER -> authService_passthrough_then(st, res)

\* The path of the request of service operation svc.
PathOf(svc) ==
    CASE svc = "login" -> "/auth/login"
      [] svc = "refresh" -> "/auth/refresh"
      [] OTHER -> "/auth/register"

\* C11: whatever error the request of a pending authService.login, register
\* or refresh fails with, the operation rejects with that very error and
\* leaves storage as it is; and when such a request has failed, the handler
\* that awaited it has ended on that rejection, the failed request being the
\* last it issued (no retry).
C11_FailurePropagates ==
    /\ \A c \in BagToSet(calls) :
          c.pc \in {"login", "register", "refresh"} =>
             \A e \in Errors :
                LET r == ServiceThen(c.pc, storage, Fail(e))
                IN /\ r.outcome = "threw"
                   /\ r.err = e
                   /\ r.storage = storage
    /\ \A svc \in {"login", "register", "refresh"} :
          (JustSettled(svc) /\ ~last.res.ok) =>
             /\ last.svcOutcome = "threw"
             /\ last.phase = "done"
             /\ last.sent[Len(last.sent)] = PathOf(svc)

\* C11 witness: a login has just failed with a session in storage, cached
\* user included, and the handler has thrown.
C11_Witness ==
    /\ JustSettled("login")
    /\ ~last.res.ok
    /\ last.outcome = "threw"
    /\ isAuthenticated(storage)
    /\ HasItem(storage, ACCESS_TOKEN_EXPIRY_KEY)
    /\ getUser(storage) # NullUser

\* C12: the mount initialisation always comes to its end with isLoading
\* false, whether no token was stored (no request is made), the
\* current-user fetch succeeded (the user is set) or it failed (the user is
\* null and no token is left in storage: the logged-out state).
C12_MountEndsLoading ==
    <>(/\ JustEnded("initAuth")
       /\ isLoading = FALSE
       /\ last.svc = "none" => last.sent = <<>> /\ user = NullUser
       /\ (last.svc = "getCurrentUser" /\ last.res.ok) => user = last.res.body
       /\ (last.svc = "getCurrentUser" /\ ~last.res.ok) =>
             user = NullUser /\ ~isAuthenticated(storage))

\* C12 witness: the mount initialisation has ended, on a request that was
\* rejected with a value that is not an Error, with isLoading false and the
\* session gone.
C12_Witness ==
    /\ JustEnded("initAuth")
    /\ last.res = Fail(ThrownValue)
    /\ last.svc = "getCurrentUser"
    /\ isLoading = FALSE
    /\ user = NullUser
    /\ ~isAuthenticated(storage)

\* The provider's operations that follow the loading/error pattern of C13.
MutatingOps == {"login", "logout", "logoutAll", "changePassword"}

\* The message a handler sets for a failure that is not an Error.
DefaultMessage(op) ==
    CASE op = "login" -> "Login failed"
      [] op = "changePassword" -> "Failed to change password"
      [] OTHER -> "Logout failed"

\* C13: for a login, logout, logoutAll or changePassword that runs with no
\* other call overlapping it: while it is in flight isLoading is true and
\* error is null; when it has ended isLoading is false, and either its
\* requests succeeded, it returned and error is null, or a request failed,
\* it threw and error is the failure's message, or the operation's default
\* message when the failure is not an Error.
C13_LoadingErrorPattern ==
    solo =>
       /\ \A c \in BagToSet(calls) :
             c.op \in MutatingOps => isLoading = TRUE /\ error = NULL
       /\ \A op \in MutatingOps :
             JustEnded(op) =>
                /\ isLoading = FALSE
                /\ last.res.ok => last.outcome = "returned" /\ error = NULL
                /\ ~last.res.ok =>
                      /\ last.outcome = "threw"
                      /\ error = IF last.res.err.isError
                                 THEN last.res.err.message ELSE DefaultMessage(op)

\* C13 witness: a changePassword that ran alone has just failed with a
\* value that is not an Error.
C13_Witness ==
    /\ solo
    /\ JustEnded("changePassword")
    /\ last.res = Fail(ThrownValue)
    /\ last.outcome = "threw"
    /\ error = "Failed to change password"
    /\ isLoading = FALSE

\* The number of calls of handler op in flight that are suspended at pc.
Suspended(op, pc) ==
    LET S == {c \in BagToSet(calls) : c.op = op /\ c.pc = pc}
    IN BagCardinality([c \in S |-> CopiesIn(c, calls)])

\* C14: a login started while another call is in flight is in flight beside
\* it, with its own request (it is neither dropped nor merged with the
\* other); and when a login response is processed after the response of
\* another login that is still running, the token and the expiry in storage
\* are those of the response processed last.
C14_OverlappingLogins ==
    /\ (last.op = "login" /\ last.phase = "start") =>
          /\ \E c \in InFlight("login") :
                c.pc = "login" /\ c.data = last.data /\ c.req = authService_login(last.data)
          /\ ~solo => BagCardinality(calls) >= 2
    /\ (JustSettled("login") /\ last.op = "login" /\ last.res.ok
          /\ Suspended("login", "getCurrentUser") >= 2) =>
          StoredIs(last.res.body)

\* C14 witness: two logins for different accounts overlap, both login
\* requests have succeeded, and storage holds the token of the one whose
\* response was processed last.
C14_Witness ==
    /\ JustSettled("login")
    /\ last.op = "login"
    /\ last.res.ok
    /\ Suspended("login", "getCurrentUser") = 2
    /\ \E c \in InFlight("login") : c.data.username # last.data.username
    /\ StoredIs(last.res.body)
    /\ TokenOwner(getAccessToken(storage)) = last.data.username

\* The step just taken processed the response to a submissions request.
JustFetched == pageLast.op = "fetch"

C16_EmptyFirstPage ==
    (/\ JustFetched
     /\ pageLast.page = 1
     /\ pageLast.res.ok
     /\ submissionData(pageLast.res.body) = <<>>
     /\ currentPage = 1) =>
        /\ EmptyStateShown(Page)
        /\ ~TableShown(Page)
        /\ ~ErrorBannerShown(Page)
        /\ PreviousControl(Page) = "disabled"

\* C17: ProtectedRoute returns its children exactly when isLoading is false,
\* the isAuthenticated prop is true, the user is not null and, where
\* requiredRole is given, user.role equals it; otherwise it returns the
\* loading state while isLoading is true, else the redirect to /login when
\* the prop is false or the user is null, else Access Denied (the role does
\* not match).
C17_ProtectedRouteGuards ==
    rendered # NotRendered =>
       LET authenticated == rendered.isAuthenticated /\ user # NullUser
           roleMatches   == rendered.requiredRole = NoRole
                               \/ user.role = rendered.requiredRole
       IN /\ rendered.out = "children" <=>
                (~isLoading /\ authenticated /\ roleMatches)
          /\ isLoading => rendered.out = "loading-container"
          /\ (~isLoading /\ ~authenticated) => rendered.out = "Navigate /login"
          /\ (~isLoading /\ authenticated /\ ~roleMatches) =>
                rendered.out = "Access Denied"

\* C17 witness: a route that requires PROBLEM_SETTER has rendered Access
\* Denied for an authenticated user of another role.
C17_Witness ==
    /\ rendered.out = "Access Denied"
    /\ rendered.isAuthenticated
    /\ rendered.requiredRole = "PROBLEM_SETTER"
    /\ user # NullUser
    /\ user.role = "USER"
    /\ ~isLoading

\* The names of the fields the application puts in a request body.
FieldNames(body) == {body[i] : i \in {j \in 1..Len(body) : j % 2 = 1}}

\* C18: storage holds no key but accessToken, accessTokenExpiry and user,
\* and under them an access token of a response, the decimal string of an
\* expiry and the JSON text of a user; the provider holds a user or null;
\* and the requests in flight carry only the caller's credentials, the
\* refresh request nothing at all (credentials: 'include' leaves the cookie
\* to the browser).  No refresh token is held or sent by the application.
C18_NoRefreshTokenHeld ==
    /\ DOMAIN storage \subseteq SessionKeys
    /\ HasItem(storage, ACCESS_TOKEN_KEY) => storage[ACCESS_TOKEN_KEY] \in Tokens
    /\ HasItem(storage, ACCESS_TOKEN_EXPIRY_KEY) =>
          \E e \in ExpiresAts : storage[ACCESS_TOKEN_EXPIRY_KEY] = toString(e)
    /\ HasItem(storage, USER_KEY) =>
          \E u \in Users : storage[USER_KEY] = JSONStringify(u)
    /\ user \in Users \cup {NullUser}
    /\ \A c \in BagToSet(calls) :
          /\ FieldNames(c.req.body) \subseteq
                {"username", "email", "password", "currentPassword", "newPassword"}
          /\ c.bearer \in Tokens \cup {NULL}
          /\ c.req.path = "/auth/refresh" =>
                c.req.body = NoBody /\ c.req.credentials = "include"
          /\ c.req.path # "/auth/refresh" => c.req.credentials = "default"

\* C18 witness: a refresh has just succeeded beside another refresh still in
\* flight, and storage holds exactly the three keys.
C18_Witness ==
    /\ JustSettled("refresh")
    /\ last.res.ok
    /\ DOMAIN storage = SessionKeys
    /\ \E c \in BagToSet(calls) : c.req = authService_refresh
    /\ user # NullUser

\* C19: a step at whose start the access-token key is absent from storage
\* and at whose end it is present is a step that processes the successful
\* response of a login or of a refresh.
C19_SessionCreatedByLoginOrRefresh ==
    [][(~HasItem(storage, ACCESS_TOKEN_KEY) /\ HasItem(storage, ACCESS_TOKEN_KEY)') =>
          (/\ last'.phase \in {"await", "done"}
           /\ last'.svc \in {"login", "refresh"}
           /\ last'.res.ok
           /\ storage'[ACCESS_TOKEN_KEY] = last'.res.body.access_token)]_vars

\* C19 witness: the current-user fetch of the mount initialisation has
\* succeeded after a logout removed the token it was sent with, and no
\* access token is in storage: the cached user was written, no session.
C19_Witness ==
    /\ JustEnded("initAuth")
    /\ last.res.ok
    /\ user # NullUser
    /\ HasItem(storage, USER_KEY)
    /\ ~HasItem(storage, ACCESS_TOKEN_KEY)

\* s is the decimal numeral of n: digits only, no leading zero, of value n.
IsDecimalOf(s, n) ==
    /\ s # <<>>
    /\ \A i \in 1..Len(s) : IsDigit(s[i])
    /\ Len(s) > 1 => s[1] # "0"
    /\ ParseDigits(s, 0) = n

\* C20: right after setTokens(t, e), getAccessToken() returns t and
\* getAccessTokenExpiry() returns e, the expiry being stored as the decimal
\* numeral of e; right after setUser(u), getUser() returns a value equal to
\* u; right after clearTokens(), the three getters return null.
C20_StorageRoundTrip ==
    /\ last.op = "setTokens" =>
          /\ getAccessToken(storage) = last.data.accessToken
          /\ getAccessTokenExpiry(storage) = Num(last.data.expiresAt)
          /\ IsDecimalOf(storage[ACCESS_TOKEN_EXPIRY_KEY], last.data.expiresAt)
    /\ last.op = "setUser" => getUser(storage) = last.data
    /\ last.op = "clearTokens" =>
          /\ getAccessToken(storage) = NULL
          /\ getAccessTokenExpiry(storage) = NullNum
          /\ getUser(storage) = NullUser

\* C20 witness: setTokens has just stored the expiry 0 over a session whose
\* cached user stays in storage, and the expiry reads back as the number 0.
C20_Witness ==
    /\ last.op = "setTokens"
    /\ last.data.expiresAt = 0
    /\ storage[ACCESS_TOKEN_EXPIRY_KEY] = <<"0">>
    /\ getAccessTokenExpiry(storage) = Num(0)
    /\ getUser(storage) # NullUser

\* The response holds no submission: an empty array, or an object that has
\* neither data nor submissions.
NoSubmissionData(res) ==
    /\ res.ok
    /\ \/ res.body.isArray /\ res.body.items = <<>>
       \/ ~res.body.isArray /\ ~res.body.data.defined /\ ~res.body.submissions.defined

\* C21: the step that processes a failed response to a submissions request
\* leaves loading false, error set to the message of the failure (or the
\* default message) and the list empty, and issues no request; the step that
\* processes a successful response with no data leaves the list empty and
\* error null; and a request is only ever issued by a click that changes
\* currentPage.
C21_FailedFetchSettles ==
    [][/\ pageLast'.op = "fetch" =>
             /\ BagCardinality(fetches') = BagCardinality(fetches) - 1
             /\ currentPage' = currentPage
             /\ loading' = FALSE
             /\ ~pageLast'.res.ok =>
                   /\ fetchError' = CatchMessage(pageLast'.res.err,
                                                 "Failed to fetch submissions")
                   /\ ~FalsyString(fetchError')
                   /\ submissions' = <<>>
             /\ NoSubmissionData(pageLast'.res) =>
                   /\ submissions' = <<>>
                   /\ fetchError' = NULL
       /\ BagCardinality(fetches') > BagCardinality(fetches) =>
             /\ pageLast'.op \in {"previous", "next"}
             /\ currentPage' # currentPage]_vars

\* C21 witness: the response to the only request in flight was a failure,
\* processed while a list was displayed; the list is now empty, the error
\* is set, loading is false and no request is in flight.
C21_Witness ==
    /\ JustFetched
    /\ ~pageLast.res.ok
    /\ pageLast.before.submissions # <<>>
    /\ submissions = <<>>
    /\ ~FalsyString(fetchError)
    /\ ~loading
    /\ fetches = EmptyBag

\* C22: the successful response to a login or refresh request that was in
\* flight when logout or logoutAll cleared storage does not bring the
\* access-token key back: where the key is absent before the step that
\* processes such a response, it is absent after it.
C22_StaleResponseKeepsLoggedOut ==
    [][\A c \in BagToSet(calls) :
          (/\ c.stale
           /\ CopiesIn(c, calls') < CopiesIn(c, calls)
           /\ last'.res.ok
           /\ ~HasItem(storage, ACCESS_TOKEN_KEY)) =>
              ~HasItem(storage', ACCESS_TOKEN_KEY)]_vars

\* C23: in every reachable state, if the user key is present in storage then
\* the access-token key is present too.
C23_UserOnlyWithToken ==
    HasItem(storage, USER_KEY) => HasItem(storage, ACCESS_TOKEN_KEY)

\* C24: in every reachable state (the states between handler steps), the
\* access-token key is present in storage if and only if the expiry key is.
C24_TokenAndExpiryTogether ==
    HasItem(storage, ACCESS_TOKEN_KEY) <=> HasItem(storage, ACCESS_TOKEN_EXPIRY_KEY)

\* C24 witness: the hook's refreshToken has just failed while another call
\* is still in flight, and neither the token nor its expiry is stored.
C24_Witness ==
    /\ JustEnded("refreshToken")
    /\ ~last.res.ok
    /\ calls # EmptyBag
    /\ ~HasItem(storage, ACCESS_TOKEN_KEY)
    /\ ~HasItem(storage, ACCESS_TOKEN_EXPIRY_KEY)

\* The operations of the context that set isLoading.
ContextOps == {"initAuth", "register", "login", "logout", "logoutAll", "changePassword"}

\* C25: in every reachable state in which a call of a context operation is
\* in flight, isLoading is true.
C25_LoadingWhilePending ==
    (\E c \in BagToSet(calls) : c.op \in ContextOps) => isLoading

\* C26: whenever currentPage is greater than 1 and no fetch is in flight,
\* the Previous control is rendered and enabled.
C26_PreviousAvailable ==
    (currentPage > 1 /\ fetches = EmptyBag) => PreviousControl(Page) = "enabled"

\* C27: whenever no fetch is in flight, the list displayed is what the
\* response to a request issued for the current value of currentPage gave:
\* the response processed last answered a request for page currentPage, and
\* the list is the one fetchSubmissions made of it.
C27_DisplayedPageIsCurrent ==
    fetches = EmptyBag =>
       /\ JustFetched
       /\ pageLast.page = currentPage
       /\ pageLast.req = Fetch(currentPage).req
       /\ submissions = fetchSubmissions_then(pageLast.before, pageLast.res).submissions

\* C28: currentPage is an integer that is at least 1; every request in
\* flight was issued for a page that is at least 1 and carries
\* skip = (page - 1) * itemsPerPage, a non-negative multiple of 10, and
\* limit = itemsPerPage = 10; and the request a click (or the mount) issues
\* is the one for the currentPage the click set.
C28_RequestMatchesPage ==
    /\ currentPage \in Int
    /\ currentPage >= 1
    /\ itemsPerPage = 10
    /\ \A f \in BagToSet(fetches) :
          /\ f.page >= 1
          /\ f.req.skip = (f.page - 1) * itemsPerPage
          /\ f.req.skip >= 0
          /\ f.req.skip % 10 = 0
          /\ f.req.limit = itemsPerPage
    /\ pageLast.op \in {"mount", "previous", "next"} =>
          /\ pageLast.page = currentPage
          /\ pageLast.req.skip = (currentPage - 1) * itemsPerPage
          /\ pageLast.req.limit = itemsPerPage
          /\ \E f \in BagToSet(fetches) : f.page = currentPage /\ f.req = pageLast.req
    /\ pageLast.op = "previous" =>
          currentPage = pageLast.before.currentPage - 1
    /\ pageLast.op = "next" =>
          currentPage = pageLast.before.currentPage + 1

\* C28 witness: a click on Previous on page 3 has just issued the request
\* for page 2, with skip 10 and limit 10.
C28_Witness ==
    /\ pageLast.op = "previous"
    /\ pageLast.before.currentPage = 3
    /\ currentPage = 2
    /\ \E f \in BagToSet(fetches) : f.req.skip = 10 /\ f.req.limit = 10

\* The status a filter other than 'all' selects.
StatusOf(f) ==
    CASE f = FilterOpen -> OPEN
      [] f = FilterInProgress -> IN_PROGRESS
      [] f = FilterClosed -> CLOSED

=============================================================================
